---- MODULE Spec2Model ----
(***************************************************************************)
(* Model of src/src/services/chat.js: callAPI and the processStream        *)
(* closure it returns (request set-up, fetch, SSE line reassembly, delta   *)
(* extraction for the three dialects, misfiled-reasoning guard, throttled  *)
(* dispatch, cancellation and reader release).                             *)
(*                                                                         *)
(* Text is a sequence of one-character strings.  The response body is a    *)
(* sequence of bytes; every ASCII character is one byte, written as the    *)
(* character itself, and the two-byte character e-acute is the byte pair   *)
(* "xC3" "xA9".  The fixed JSON scaffolding of a record is written as one  *)
(* token (for instance "{oc:" for {"choices":[{"delta":{"content":" ), so  *)
(* that a chunk boundary can fall anywhere between tokens.                 *)
(*                                                                         *)
(* Date.now() is modelled as a clock that never runs backwards, and a      *)
(* timer never fires before its delay has elapsed on that clock.           *)
(***************************************************************************)
EXTENDS Integers, Sequences, FiniteSets, TLC

\* ---------------------------------------------------------------- bounds
\* number of clock advances explored while the stream is being read
MaxTicks == 2
\* number of SSE lines of a response body
MaxLines == 2
\* number of fragments of a base URL given to detectApiFormat
MaxUrlLen == 2
\* number of messages of a list given to a converter
MaxMessages == 3
\* value of Date.now() when the call starts (any value above UPDATE_INTERVAL)
ClockStart == 1000

\* ------------------------------------------------------ program constants
UPDATE_INTERVAL == 100

Formats == {"openai", "gemini", "claude"}

\* ------------------------------------------------------------ text helpers
NL == "\n"

\* tokens that stand for JSON scaffolding, the SSE marker and raw bytes
Structural ==
  { NL, "da", "ta: ", "[DONE]", "{oc:", ",or:", "{or:", "{gp:", ",gp:",
    "{cd:", "{md}", "null", "}", "xC3", "xA9" }

IsText(s) == \A i \in 1..Len(s) : s[i] \notin Structural

\* String.prototype.startsWith
StartsWith(s, p) == Len(p) <= Len(s) /\ SubSeq(s, 1, Len(p)) = p

Whitespace == {" ", NL}

RECURSIVE TrimStart(_)
\* String.prototype.trimStart
TrimStart(s) ==
  IF s # <<>> /\ s[1] \in Whitespace THEN TrimStart(Tail(s)) ELSE s

RECURSIVE TrimEnd(_)
TrimEnd(s) ==
  IF s # <<>> /\ s[Len(s)] \in Whitespace
    THEN TrimEnd(SubSeq(s, 1, Len(s) - 1)) ELSE s

\* String.prototype.trim
Trim(s) == TrimEnd(TrimStart(s))

LowerChar(c) ==
  CASE c = "T" -> "t"
    [] c = "H" -> "h"
    [] OTHER   -> c

\* String.prototype.toLowerCase
ToLowerCase(s) == [i \in 1..Len(s) |-> LowerChar(s[i])]

\* buffer.indexOf('\n'), 1-based; 0 when absent
IndexOfNL(s) ==
  IF \E i \in 1..Len(s) : s[i] = NL
    THEN CHOOSE i \in 1..Len(s) : s[i] = NL /\ \A j \in 1..(i - 1) : s[j] # NL
    ELSE 0

RECURSIVE Decode(_)
\* new TextDecoder().decode(value): a fresh, non-streaming decoder per chunk.
\* A complete byte pair becomes the character; a lead byte without its
\* continuation, or a continuation byte without its lead, becomes U+FFFD.
Decode(bytes) ==
  IF bytes = <<>> THEN <<>>
  ELSE IF bytes[1] = "xC3" /\ Len(bytes) >= 2 /\ bytes[2] = "xA9"
    THEN <<"e_acute">> \o Decode(SubSeq(bytes, 3, Len(bytes)))
  ELSE IF bytes[1] \in {"xC3", "xA9"}
    THEN <<"FFFD">> \o Decode(Tail(bytes))
  ELSE <<bytes[1]>> \o Decode(Tail(bytes))

RECURSIVE SplitOn(_, _)
\* the fields of a record body, separated by the token sep
SplitOn(s, sep) ==
  IF \E i \in 1..Len(s) : s[i] = sep
    THEN LET i == CHOOSE k \in 1..Len(s) :
                    s[k] = sep /\ \A j \in 1..(k - 1) : s[j] # sep
         IN <<SubSeq(s, 1, i - 1)>> \o SplitOn(SubSeq(s, i + 1, Len(s)), sep)
    ELSE <<s>>

RECURSIVE Flatten(_)
Flatten(ss) == IF ss = <<>> THEN <<>> ELSE Head(ss) \o Flatten(Tail(ss))

\* ------------------------------------------------------------ JSON.parse
NoRecord == [ok |-> FALSE, kind |-> "none", fields |-> <<>>]

\* JSON.parse(data) for the payloads of the model: ok is FALSE when
\* JSON.parse throws.
\*   {oc: c }          {"choices":[{"delta":{"content":c}}]}
\*   {or: r }          {"choices":[{"delta":{"reasoning_content":r}}]}
\*   {oc: c ,or: r }   both keys in one delta
\*   {gp: t ,gp: u }   {"candidates":[{"content":{"parts":[{"text":t},..]}}]}
\*   {gp: t ,gp: null} {"candidates":[{"content":{"parts":[{"text":t},null]}}]}
\*   {cd: t }          {"type":"content_block_delta","delta":{"text":t}}
\*   {md}              {"type":"message_delta","delta":{"stop_reason":..}}
\*   null              the JSON value null
JSONParse(data) ==
  LET n == Len(data) IN
  IF data = <<"{md}">> THEN [ok |-> TRUE, kind |-> "{md}", fields |-> <<>>]
  ELSE IF data = <<"null">> THEN [ok |-> TRUE, kind |-> "null", fields |-> <<>>]
  ELSE IF n >= 2 /\ data[n] = "}" /\ data[1] \in {"{oc:", "{or:", "{gp:", "{cd:"}
    THEN LET body == SubSeq(data, 2, n - 1)
             fs   == CASE data[1] = "{oc:" -> SplitOn(body, ",or:")
                       [] data[1] = "{gp:" -> SplitOn(body, ",gp:")
                       [] OTHER            -> <<body>>
         IN IF (\A i \in 1..Len(fs) :
                    IsText(fs[i]) \/ (data[1] = "{gp:" /\ fs[i] = <<"null">>))
                 /\ (data[1] = "{oc:" => Len(fs) <= 2)
              THEN [ok |-> TRUE, kind |-> data[1], fields |-> fs]
              ELSE NoRecord
  ELSE NoRecord

\* ------------------------------------------------------------------ state
VARIABLES
  pc,                    \* position of the call: start, ready, fetching,
                         \* text, reading or settled
  now,                   \* Date.now()
  ticks,                 \* clock advances made so far
  apiFormat,             \* detectApiFormat(...) of this call
  hasSink,               \* chatManager && chatId
  options,               \* the options argument of callAPI
  finalRequestInit,      \* the request built by callAPI
  controllerReturned,    \* callAPI has handed {processStream, controller} back
  aborted,               \* controller.signal.aborted
  abortedAt,             \* where the call was when controller.abort() ran
  fetchCalls,            \* the requests passed to fetch, in order
  response,              \* what fetch resolved with: none, non-2xx,
                         \* unreadable (2xx without a body stream) or ok
  wire,                  \* bytes the server has to send
  pos,                   \* bytes of the body already delivered by read()
  reader,                \* the reader has been acquired
  cancelCalls,           \* number of reader.cancel() calls
  buffer,
  currentMessage,
  lastUpdateTime,
  updateTimeout,
  didDispatchAnyUpdate,
  storeCalls,            \* chatManager.updateLastMessage calls
  uiCalls,               \* onMessageUpdate calls
  deltaLog,              \* every applied delta: the accumulator after it, the
                         \* guard's decision, the flushes made before it
  pending,               \* what the try/catch of processStream evaluated to
  outcome,               \* how the promise of the call settled
  timers,                \* number of setTimeout callbacks scheduled and live
  pureIn,                \* arguments of a helper function applied on its own
  pureOut                \* what the helper returned

vars ==
  << pc, now, ticks, apiFormat, hasSink, options, finalRequestInit,
     controllerReturned, aborted, abortedAt, fetchCalls, response, wire,
     pos, reader, cancelCalls, buffer, currentMessage, lastUpdateTime,
     updateTimeout, didDispatchAnyUpdate, storeCalls, uiCalls, deltaLog,
     pending, outcome, timers, pureIn, pureOut >>

pureVars == << pureIn, pureOut >>

NoInput ==
  [fn |-> "none", baseUrl |-> <<>>, explicitFormat |-> "", messages |-> <<>>]

NoSystemInstruction == [present |-> FALSE, parts |-> <<>>]

NoOutput ==
  [fn |-> "none", format |-> "", turns |-> <<>>, system |-> <<>>,
   systemInstruction |-> NoSystemInstruction]

NoTimer == [set |-> FALSE, due |-> 0]

EmptyMessage == [content |-> <<>>, reasoning_content |-> <<>>]

\* the local variables of processStream, threaded through one read() turn
Locals ==
  [ buffer               |-> buffer,
    currentMessage       |-> currentMessage,
    lastUpdateTime       |-> lastUpdateTime,
    updateTimeout        |-> updateTimeout,
    didDispatchAnyUpdate |-> didDispatchAnyUpdate,
    storeCalls           |-> storeCalls,
    uiCalls              |-> uiCalls,
    deltaLog             |-> deltaLog,
    timers               |-> timers,
    thrown               |-> FALSE ]

\* ---------------------------------------------------------------- options
DefaultPrefix == <<"t", "h", "i", "n", "k">>

\* the normalised, de-duplicated prefix list
MisfiledThinkSilentlyPrefixes(opts) ==
  LET raw == IF opts.misfiledThinkSilentlyPrefixes # <<>>
               THEN opts.misfiledThinkSilentlyPrefixes
               ELSE IF opts.misfiledThinkSilentlyPrefix # <<>>
                 THEN opts.misfiledThinkSilentlyPrefix
                 ELSE <<DefaultPrefix>>
  IN { ToLowerCase(Trim(raw[i])) : i \in 1..Len(raw) } \ { <<>> }

\* ------------------------------------------------------------- the request
\* variant of FinalRequestInit: the rebuilt Gemini request drops the signal
FinalRequestInit_GeminiNoSignal(fmt) ==
  CASE fmt = "gemini" -> [auth |-> "query-key", signal |-> FALSE]
    [] fmt = "claude" -> [auth |-> "x-api-key", signal |-> TRUE]
    [] OTHER          -> [auth |-> "bearer", signal |-> TRUE]

\* finalRequestInit as callAPI builds it for each dialect
FinalRequestInit(fmt) ==
  CASE fmt = "gemini" -> [auth |-> "query-key", signal |-> TRUE]
    [] fmt = "claude" -> [auth |-> "x-api-key", signal |-> TRUE]
    [] OTHER          -> [auth |-> "bearer", signal |-> TRUE]

\* -------------------------------------------------------- delta extraction
\* variant of ExtractDelta: the openai branch assigns the delta instead of
\* appending it
\* a part that is the JSON value null: reading part.text of it throws
NullPart == <<"null">>

HasNullPart(fields) == \E i \in 1..Len(fields) : fields[i] = NullPart

\* the parts the for loop gets through before part.text throws
PartsRead(fields) ==
  IF HasNullPart(fields)
    THEN LET k == CHOOSE i \in 1..Len(fields) :
                    /\ fields[i] = NullPart
                    /\ \A j \in 1..(i - 1) : fields[j] # NullPart
         IN SubSeq(fields, 1, k - 1)
    ELSE fields

ExtractDelta_Overwrite(fmt, parsed, msg) ==
  IF parsed.kind = "null"
    THEN [threw |-> TRUE, msg |-> msg, hasUpdate |-> FALSE]
  ELSE IF fmt = "gemini"
    THEN IF parsed.kind = "{gp:"
           THEN LET parts == PartsRead(parsed.fields) IN
                [ threw |-> HasNullPart(parsed.fields),
                  msg |-> [msg EXCEPT !.content = @ \o Flatten(parts)],
                  hasUpdate |-> \E i \in 1..Len(parts) : parts[i] # <<>> ]
           ELSE [threw |-> FALSE, msg |-> msg, hasUpdate |-> FALSE]
  ELSE IF fmt = "claude"
    THEN IF parsed.kind = "{cd:" /\ parsed.fields[1] # <<>>
           THEN [ threw |-> FALSE,
                  msg |-> [msg EXCEPT !.content = @ \o parsed.fields[1]],
                  hasUpdate |-> TRUE ]
           ELSE [threw |-> FALSE, msg |-> msg, hasUpdate |-> FALSE]
  ELSE LET c == IF parsed.kind = "{oc:" THEN parsed.fields[1] ELSE <<>>
           r == IF parsed.kind = "{or:" THEN parsed.fields[1]
                ELSE IF parsed.kind = "{oc:" /\ Len(parsed.fields) = 2
                  THEN parsed.fields[2] ELSE <<>>
       IN [ threw |-> FALSE,
            msg |-> [ content |-> IF c # <<>> THEN c ELSE msg.content,
                      reasoning_content |-> msg.reasoning_content \o r ],
            hasUpdate |-> c # <<>> \/ r # <<>> ]

\* the dialect branch of the record handler: the new accumulator, whether
\* hasUpdate was set, and whether the property access threw
ExtractDelta(fmt, parsed, msg) ==
  IF parsed.kind = "null"
    THEN [threw |-> TRUE, msg |-> msg, hasUpdate |-> FALSE]
  ELSE IF fmt = "gemini"
    THEN IF parsed.kind = "{gp:"
           THEN LET parts == PartsRead(parsed.fields) IN
                [ threw |-> HasNullPart(parsed.fields),
                  msg |-> [msg EXCEPT !.content = @ \o Flatten(parts)],
                  hasUpdate |-> \E i \in 1..Len(parts) : parts[i] # <<>> ]
           ELSE [threw |-> FALSE, msg |-> msg, hasUpdate |-> FALSE]
  ELSE IF fmt = "claude"
    THEN IF parsed.kind = "{cd:" /\ parsed.fields[1] # <<>>
           THEN [ threw |-> FALSE,
                  msg |-> [msg EXCEPT !.content = @ \o parsed.fields[1]],
                  hasUpdate |-> TRUE ]
           ELSE [threw |-> FALSE, msg |-> msg, hasUpdate |-> FALSE]
  ELSE LET c == IF parsed.kind = "{oc:" THEN parsed.fields[1] ELSE <<>>
           r == IF parsed.kind = "{or:" THEN parsed.fields[1]
                ELSE IF parsed.kind = "{oc:" /\ Len(parsed.fields) = 2
                  THEN parsed.fields[2] ELSE <<>>
       IN [ threw |-> FALSE,
            msg |-> [ content |-> msg.content \o c,
                      reasoning_content |-> msg.reasoning_content \o r ],
            hasUpdate |-> c # <<>> \/ r # <<>> ]

\* ------------------------------------------------------------ the guard
\* contentStart of the guard
ContentStart(msg) == ToLowerCase(TrimStart(msg.content))

\* variant of GuardVerdict: the accumulated content must equal a prefix
GuardVerdict_ExactMatch(opts, did, msg) ==
  IF opts.detectMisfiledThinkSilently /\ ~did /\ msg.reasoning_content = <<>>
    THEN IF ContentStart(msg) \in MisfiledThinkSilentlyPrefixes(opts)
           THEN "abort"
         ELSE IF \E p \in MisfiledThinkSilentlyPrefixes(opts) :
               StartsWith(p, ContentStart(msg))
           THEN "suppress"
         ELSE "pass"
    ELSE "pass"

\* variant of GuardVerdict: a prefix is looked for at the end of the content
GuardVerdict_EndsWith(opts, did, msg) ==
  IF opts.detectMisfiledThinkSilently /\ ~did /\ msg.reasoning_content = <<>>
    THEN IF \E p \in MisfiledThinkSilentlyPrefixes(opts) :
               /\ Len(p) <= Len(ContentStart(msg))
               /\ SubSeq(ContentStart(msg),
                         Len(ContentStart(msg)) - Len(p) + 1,
                         Len(ContentStart(msg))) = p
           THEN "abort"
         ELSE IF \E p \in MisfiledThinkSilentlyPrefixes(opts) :
               StartsWith(p, ContentStart(msg))
           THEN "suppress"
         ELSE "pass"
    ELSE "pass"

\* "abort": throw the misfiled error; "suppress": continue without
\* surfacing the delta; "pass": go on to the throttle
\* variant of GuardVerdict: a content that is only the beginning of a prefix
\* is passed on to the dispatcher
GuardVerdict_NoSuppress(opts, did, msg) ==
  IF opts.detectMisfiledThinkSilently /\ ~did /\ msg.reasoning_content = <<>>
       /\ \E p \in MisfiledThinkSilentlyPrefixes(opts) :
               StartsWith(ContentStart(msg), p)
    THEN "abort"
    ELSE "pass"

GuardVerdict(opts, did, msg) ==
  IF opts.detectMisfiledThinkSilently /\ ~did /\ msg.reasoning_content = <<>>
    THEN IF \E p \in MisfiledThinkSilentlyPrefixes(opts) :
               StartsWith(ContentStart(msg), p)
           THEN "abort"
         ELSE IF \E p \in MisfiledThinkSilentlyPrefixes(opts) :
               StartsWith(p, ContentStart(msg))
           THEN "suppress"
         ELSE "pass"
    ELSE "pass"

\* ---------------------------------------------------------- the dispatcher
\* dispatchUpdate(), called at clock value t; cause is bookkeeping only
DispatchUpdate(L, sink, t, cause) ==
  LET L1 == IF sink
              THEN [L EXCEPT
                      !.storeCalls = Append(@, [ msg |-> L.currentMessage,
                                                 at |-> t, cause |-> cause ]),
                      !.uiCalls = Append(@, L.currentMessage),
                      !.lastUpdateTime = t,
                      !.didDispatchAnyUpdate = TRUE]
              ELSE L
  IN [L1 EXCEPT !.updateTimeout = NoTimer,
                !.timers = IF L.updateTimeout.set THEN @ - 1 ELSE @]

\* variant of FinalFlush: nothing is flushed at end of stream
FinalFlush_Skip(L, sink, t) == L

\* end of stream: the last flush
FinalFlush(L, sink, t) ==
  IF t - L.lastUpdateTime > 0 THEN DispatchUpdate(L, sink, t, "final") ELSE L

\* variant of ThrottleUpdate: every surfaced delta is flushed at once
ThrottleUpdate_NoThrottle(L, sink, t) ==
  IF ~L.updateTimeout.set THEN DispatchUpdate(L, sink, t, "immediate") ELSE L

\* variant of ThrottleUpdate: a timer is scheduled although one is pending
ThrottleUpdate_Rearm(L, sink, t) ==
  IF t - L.lastUpdateTime > UPDATE_INTERVAL
    THEN DispatchUpdate(L, sink, t, "immediate")
    ELSE [L EXCEPT !.updateTimeout =
            [ set |-> TRUE,
              due |-> t + (UPDATE_INTERVAL - (t - L.lastUpdateTime)) ],
                   !.timers = @ + 1]

\* the throttle: flush now, or arm the timer for the rest of the interval
ThrottleUpdate(L, sink, t) ==
  IF ~L.updateTimeout.set
    THEN IF t - L.lastUpdateTime > UPDATE_INTERVAL
           THEN DispatchUpdate(L, sink, t, "immediate")
           ELSE [L EXCEPT !.updateTimeout =
                   [ set |-> TRUE,
                     due |-> t + (UPDATE_INTERVAL - (t - L.lastUpdateTime)) ],
                          !.timers = @ + 1]
    ELSE L

\* the body of the try block for one data payload
HandleData(L, data) ==
  LET parsed == JSONParse(data) IN
  IF ~parsed.ok THEN L
  ELSE LET x == ExtractDelta(apiFormat, parsed, L.currentMessage) IN
       IF x.threw THEN [L EXCEPT !.currentMessage = x.msg]
       ELSE IF ~x.hasUpdate THEN L
       ELSE LET L1 == [L EXCEPT !.currentMessage = x.msg]
                v  == GuardVerdict(options, L.didDispatchAnyUpdate, x.msg)
                L2 == [L1 EXCEPT !.deltaLog =
                         Append(@, [ msg |-> x.msg, verdict |-> v,
                                     flushesBefore |-> Len(L.storeCalls) ])]
            IN CASE v = "abort"    -> [L2 EXCEPT !.thrown = TRUE]
                 [] v = "suppress" -> L2
                 [] OTHER          -> ThrottleUpdate(L2, hasSink, now)

\* variant of ProcessLine: the [DONE] sentinel ends the decoding of what has
\* been received
ProcessLine_DoneEnds(L, line) ==
  IF StartsWith(line, <<"da", "ta: ">>)
    THEN LET data == SubSeq(line, 3, Len(line)) IN
         IF data = <<"[DONE]">> THEN [L EXCEPT !.buffer = <<>>]
         ELSE HandleData(L, data)
    ELSE L

\* one line taken from the buffer
ProcessLine(L, line) ==
  IF StartsWith(line, <<"da", "ta: ">>)
    THEN LET data == SubSeq(line, 3, Len(line)) IN
         IF data = <<"[DONE]">> THEN L ELSE HandleData(L, data)
    ELSE L

RECURSIVE DrainBuffer(_)
\* the inner while loop: take newline-terminated lines until none is left
\* or the guard has thrown
DrainBuffer(L) ==
  LET i == IndexOfNL(L.buffer) IN
  IF L.thrown \/ i = 0 THEN L
  ELSE DrainBuffer(ProcessLine(
         [L EXCEPT !.buffer = SubSeq(L.buffer, i + 1, Len(L.buffer))],
         SubSeq(L.buffer, 1, i - 1)))

\* ------------------------------------------------------ dialect detection
\* a base URL is a sequence of lower- or upper-case fragments
GeminiMarkers ==
  {"generativelanguage.googleapis.com", "aiplatform.googleapis.com", "gemini"}

ClaudeMarkers == {"anthropic.com", "claude", "api.anthropic"}

LowerFragment(f) == IF f = "GEMINI" THEN "gemini" ELSE f

\* url.includes(m) after url = baseUrl.toLowerCase()
UrlIncludes(baseUrl, m) ==
  \E i \in 1..Len(baseUrl) : LowerFragment(baseUrl[i]) = m

DetectApiFormat_ClaudeFirst(baseUrl, explicitFormat) ==
  IF explicitFormat \in Formats THEN explicitFormat
  ELSE IF \E m \in ClaudeMarkers : UrlIncludes(baseUrl, m) THEN "claude"
  ELSE IF \E m \in GeminiMarkers : UrlIncludes(baseUrl, m) THEN "gemini"
  ELSE "openai"

DetectApiFormat(baseUrl, explicitFormat) ==
  IF explicitFormat \in Formats THEN explicitFormat
  ELSE IF \E m \in GeminiMarkers : UrlIncludes(baseUrl, m) THEN "gemini"
  ELSE IF \E m \in ClaudeMarkers : UrlIncludes(baseUrl, m) THEN "claude"
  ELSE "openai"

\* ------------------------------------------------ the request converters
\* JSON.stringify of a content that is not a string
StringifyItem(item) ==
  IF item.type = "text" THEN <<"{type:text,text:">> \o item.text \o <<"}">>
  ELSE <<"{type:image_url,url:">> \o item.url \o <<"}">>

RECURSIVE StringifyItems(_)
StringifyItems(items) ==
  IF items = <<>> THEN <<>>
  ELSE StringifyItem(Head(items)) \o StringifyItems(Tail(items))

Stringify(content) ==
  IF content.kind = "array" THEN <<"[">> \o StringifyItems(content.items) \o <<"]">>
  ELSE <<"null">>

\* typeof msg.content === 'string' ? msg.content : JSON.stringify(msg.content)
SystemText(content) ==
  IF content.kind = "string" THEN content.text ELSE Stringify(content)

\* const [header, base64] = dataUrl.split(',')
DataUrlHeader(url) == SplitOn(url, ",")[1]

DataUrlBase64(url) ==
  IF Len(SplitOn(url, ",")) >= 2 THEN SplitOn(url, ",")[2] ELSE <<>>

\* header.match(/data:([^;]+)/)?.[1] || 'image/png'
MimeType(header) ==
  IF Len(header) >= 2 /\ header[2] # ";base64" THEN header[2] ELSE "image/png"

\* item.image_url?.url is truthy and starts with 'data:'
IsDataUrl(url) == url # <<>> /\ url[1] = "data:"

RECURSIVE GeminiParts(_)
GeminiParts(items) ==
  IF items = <<>> THEN <<>>
  ELSE LET item == Head(items) IN
       (IF item.type = "text"
          THEN << [kind |-> "text", text |-> item.text,
                   mime_type |-> "", data |-> <<>>] >>
        ELSE IF item.type = "image_url" /\ IsDataUrl(item.url)
          THEN << [kind |-> "inline_data", text |-> <<>>,
                   mime_type |-> MimeType(DataUrlHeader(item.url)),
                   data |-> DataUrlBase64(item.url)] >>
        ELSE <<>>) \o GeminiParts(Tail(items))

GeminiMessageParts(content) ==
  IF content.kind = "string"
    THEN << [kind |-> "text", text |-> content.text,
             mime_type |-> "", data |-> <<>>] >>
  ELSE IF content.kind = "array" THEN GeminiParts(content.items)
  ELSE <<>>

RECURSIVE GeminiLoop(_, _, _)
GeminiLoop(messages, contents, systemInstruction) ==
  IF messages = <<>>
    THEN [contents |-> contents, systemInstruction |-> systemInstruction]
  ELSE LET msg == Head(messages)
           parts == GeminiMessageParts(msg.content)
           role == IF msg.role = "assistant" THEN "model" ELSE "user"
       IN IF msg.role = "system"
            THEN GeminiLoop(Tail(messages), contents,
                   [present |-> TRUE,
                    parts |-> << [text |-> SystemText(msg.content)] >>])
          ELSE IF Len(parts) > 0
            THEN GeminiLoop(Tail(messages),
                   Append(contents, [role |-> role, parts |-> parts]),
                   systemInstruction)
          ELSE GeminiLoop(Tail(messages), contents, systemInstruction)

ConvertToGeminiFormat(messages) ==
  GeminiLoop(messages, <<>>, NoSystemInstruction)

RECURSIVE ClaudeContent(_)
ClaudeContent(items) ==
  IF items = <<>> THEN <<>>
  ELSE LET item == Head(items) IN
       (IF item.type = "text"
          THEN << [kind |-> "text", text |-> item.text,
                   mime_type |-> "", data |-> <<>>] >>
        ELSE IF item.type = "image_url" /\ IsDataUrl(item.url)
          THEN << [kind |-> "image", text |-> <<>>,
                   mime_type |-> MimeType(DataUrlHeader(item.url)),
                   data |-> DataUrlBase64(item.url)] >>
        ELSE <<>>) \o ClaudeContent(Tail(items))

ClaudeMessageContent(content) ==
  IF content.kind = "string"
    THEN << [kind |-> "text", text |-> content.text,
             mime_type |-> "", data |-> <<>>] >>
  ELSE IF content.kind = "array" THEN ClaudeContent(content.items)
  ELSE <<>>

RECURSIVE ClaudeLoop(_, _, _)
ClaudeLoop(messages, claudeMessages, system) ==
  IF messages = <<>>
    THEN [messages |-> claudeMessages, system |-> system]
  ELSE LET msg == Head(messages)
           content == ClaudeMessageContent(msg.content)
       IN IF msg.role = "system"
            THEN ClaudeLoop(Tail(messages), claudeMessages,
                   system \o (IF system # <<>> THEN <<"\n\n">> ELSE <<>>)
                          \o SystemText(msg.content))
          ELSE IF Len(content) > 0
            THEN ClaudeLoop(Tail(messages),
                   Append(claudeMessages,
                          [role |-> msg.role, parts |-> content]),
                   system)
          ELSE ClaudeLoop(Tail(messages), claudeMessages, system)

ConvertToClaudeFormat(messages) == ClaudeLoop(messages, <<>>, <<>>)

\* ------------------------------------------------------------ the inputs
BaseUrls ==
  { <<>>,                                     \* missing base URL
    <<"api.example.com">>,
    <<"generativelanguage.googleapis.com">>,
    <<"proxy/", "GEMINI", "/", "claude">>,
    <<"api.anthropic", ".com">> }

ExplicitFormats == {"", "openai", "gemini", "claude", "azure"}

OptionSets ==
  { [ detectMisfiledThinkSilently |-> FALSE,
      misfiledThinkSilentlyPrefixes |-> <<>>,
      misfiledThinkSilentlyPrefix |-> <<>> ],
    [ detectMisfiledThinkSilently |-> TRUE,
      misfiledThinkSilentlyPrefixes |-> <<>>,
      misfiledThinkSilentlyPrefix |-> <<>> ],
    [ detectMisfiledThinkSilently |-> TRUE,
      misfiledThinkSilentlyPrefixes |-> << <<" ", "T", "H", " ">>, <<" ">> >>,
      misfiledThinkSilentlyPrefix |-> <<>> ] }

DataLine(payload) == <<"da", "ta: ">> \o payload \o <<NL>>

OC(c) == <<"{oc:">> \o c \o <<"}">>

CommonLines ==
  { DataLine(<<"[DONE]">>),
    DataLine(<<"{oc:", "x">>),                \* truncated JSON
    <<NL>> }                                  \* blank separator line

LinePool(fmt) ==
  CommonLines \cup
  CASE fmt = "gemini" ->
         { DataLine(<<"{gp:", "T", ",gp:", "h", "}">>),
           DataLine(<<"{gp:", "T", ",gp:", "null", "}">>),
           DataLine(<<"{gp:", "x", "xC3", "xA9", "}">>) }
    [] fmt = "claude" ->
         { DataLine(<<"{cd:", "T", "h", "}">>),
           DataLine(<<"{cd:", "x", "}">>),
           DataLine(<<"{md}">>) }
    [] OTHER ->
         { DataLine(OC(<<"T">>)),
           DataLine(OC(<<"h", "i">>)),
           DataLine(OC(<<"x", "xC3", "xA9">>)),
           DataLine(<<"{or:", "r", "}">>),
           DataLine(<<"{oc:", "t", "h", ",or:", "r", "}">>) }

\* the worked examples of the documentation (openai dialect)
ExampleBodies ==
  { DataLine(OC(<<"t">>)) \o DataLine(OC(<<"h", "i">>))
      \o DataLine(OC(<<"n", "k", " ", "i", "s", " ", "w", "r", "o", "n", "g">>)),
    DataLine(OC(<<"T", "h", "e", " ", "a", "n", "s", "w", "e", "r", " ",
                  "i", "s", " ", "4">>)),
    DataLine(OC(<<"H", "e">>)) \o DataLine(OC(<<"l", "l", "o">>))
      \o DataLine(<<"[DONE]">>),
    DataLine(OC(<<" ">>)) \o DataLine(OC(<<"T">>)),    \* leading whitespace
    DataLine(<<"[DONE]">>) \o DataLine(OC(<<"h", "i">>))
      \o DataLine(OC(<<"T">>)) }                        \* records after [DONE]

LineSeqs(fmt) ==
  UNION { [1..n -> LinePool(fmt)] : n \in 0..MaxLines }

\* what the server has to send: up to MaxLines lines, or a worked example
Bodies(fmt) ==
  { Flatten(ls) : ls \in LineSeqs(fmt) }
    \cup (IF fmt = "openai" THEN ExampleBodies ELSE {})

\* ------------------------------------------------------------------- Init
Idle ==
  /\ pc = "start"
  /\ now = ClockStart
  /\ ticks = 0
  /\ apiFormat = "openai"
  /\ hasSink = FALSE
  /\ options = CHOOSE o \in OptionSets : ~o.detectMisfiledThinkSilently
  /\ finalRequestInit = [auth |-> "none", signal |-> FALSE]
  /\ controllerReturned = FALSE
  /\ aborted = FALSE
  /\ abortedAt = [pc |-> "none", pos |-> 0]
  /\ fetchCalls = <<>>
  /\ response = "none"
  /\ wire = <<>>
  /\ pos = 0
  /\ reader = FALSE
  /\ cancelCalls = 0
  /\ buffer = <<>>
  /\ currentMessage = EmptyMessage
  /\ lastUpdateTime = 0
  /\ updateTimeout = NoTimer
  /\ didDispatchAnyUpdate = FALSE
  /\ storeCalls = <<>>
  /\ uiCalls = <<>>
  /\ deltaLog = <<>>
  /\ pending = "none"
  /\ outcome = "none"
  /\ timers = 0

Init ==
  /\ Idle
  /\ pureIn = NoInput
  /\ pureOut = NoOutput

\* inputs of the helper functions applied on their own
UrlFragments ==
  GeminiMarkers \cup ClaudeMarkers \cup {"GEMINI", "api.example.com", "/v1"}

PureUrls ==
  UNION { [1..n -> UrlFragments] : n \in 0..MaxUrlLen }

PureExplicitFormats == ExplicitFormats \cup {"Gemini"}

Texts == { <<"a">>, <<"b">> }

TextItem(t) == [type |-> "text", text |-> t, url |-> <<>>]

ImageItem(u) == [type |-> "image_url", text |-> <<>>, url |-> u]

StringContent(t) == [kind |-> "string", text |-> t, items |-> <<>>]

ArrayContent(items) == [kind |-> "array", text |-> <<>>, items |-> items]

MessageContents ==
  { StringContent(t) : t \in Texts } \cup
  { ArrayContent(<< TextItem(<<"a">>),
                    ImageItem(<<"data:", "image/jpeg", ";base64", ",", "QUJD">>),
                    TextItem(<<"b">>) >>),
    ArrayContent(<< ImageItem(<<"https://example.com/cat.png">>) >>),
    ArrayContent(<< ImageItem(<<"data:", ";base64", ",", "QUJD">>) >>),
    [kind |-> "null", text |-> <<>>, items |-> <<>>] }

Roles == {"system", "user", "assistant", "tool"}

Messages == [role : Roles, content : MessageContents]

MessageLists == UNION { [1..n -> Messages] : n \in 0..MaxMessages }

PureInputs ==
  { [fn |-> "detectApiFormat", baseUrl |-> u, explicitFormat |-> f,
     messages |-> <<>>] : u \in PureUrls, f \in PureExplicitFormats } \cup
  { [fn |-> g, baseUrl |-> <<>>, explicitFormat |-> "", messages |-> ms] :
      g \in {"convertToGeminiFormat", "convertToClaudeFormat"},
      ms \in MessageLists }

PureInit ==
  /\ Idle
  /\ pureIn \in PureInputs
  /\ pureOut = NoOutput

\* ---------------------------------------------------------------- actions
requestVars == << apiFormat, hasSink, options, finalRequestInit,
                  controllerReturned, fetchCalls, response >>

streamVars == << buffer, currentMessage, lastUpdateTime, updateTimeout,
                 didDispatchAnyUpdate, storeCalls, uiCalls, deltaLog,
                 timers >>

\* write the locals of one turn back
Commit(L) ==
  /\ buffer' = L.buffer
  /\ currentMessage' = L.currentMessage
  /\ lastUpdateTime' = L.lastUpdateTime
  /\ updateTimeout' = L.updateTimeout
  /\ didDispatchAnyUpdate' = L.didDispatchAnyUpdate
  /\ storeCalls' = L.storeCalls
  /\ uiCalls' = L.uiCalls
  /\ deltaLog' = L.deltaLog
  /\ timers' = L.timers

\* variant of CatchResult: an AbortError is rethrown like any other error
CatchResult_Rethrow(error) == error

\* variant of CatchResult: every error is swallowed like an AbortError
CatchResult_SwallowAll(error) == "undefined"

\* the catch clause: what the try/catch evaluates to for a thrown error
CatchResult(error) == IF error = "AbortError" THEN "undefined" ELSE error

\* variant of ReleaseCalls: the reader is never released
ReleaseCalls_Never(rdr, n) == n

\* reader?.cancel?.() of the finally clause
ReleaseCalls(rdr, n) == IF rdr THEN n + 1 ELSE n

\* variant of SettleResult: a rejection of cancel() replaces the result
SettleResult_CancelErrorWins(result, cancelRejected) ==
  IF cancelRejected THEN "cancel-error" ELSE result

\* the promise settles with the result of the try/catch whatever cancel() did
SettleResult(result, cancelRejected) == result

\* leave the try/catch with a result and run the finally clause; rdr is the
\* reader variable, cancelRejected tells whether reader.cancel() rejects (it
\* does on a stream that has errored)
Finally(result, rdr, cancelRejected) ==
  /\ pending' = result
  /\ pc' = "settled"
  /\ cancelCalls' = ReleaseCalls(rdr, cancelCalls)
  /\ outcome' = SettleResult(result, rdr /\ cancelRejected)

\* callAPI up to its return statement
CallAPI(baseUrl, apiKey, explicitFormat, sink, opts) ==
  /\ pc = "start"
  /\ IF baseUrl = <<>> \/ ~apiKey
       THEN /\ pc' = "settled"
            /\ outcome' = "config"
            /\ UNCHANGED requestVars
       ELSE /\ pc' = "ready"
            /\ apiFormat' = DetectApiFormat(baseUrl, explicitFormat)
            /\ hasSink' = sink
            /\ options' = opts
            /\ finalRequestInit' =
                 FinalRequestInit(DetectApiFormat(baseUrl, explicitFormat))
            /\ controllerReturned' = TRUE
            /\ UNCHANGED << outcome, fetchCalls, response >>
  /\ UNCHANGED << now, ticks, aborted, abortedAt, wire, pos, reader,
                  cancelCalls, streamVars, pending >>
  /\ UNCHANGED pureVars

\* the caller calls controller.abort()
Abort ==
  /\ controllerReturned
  /\ ~aborted
  /\ pc \in {"ready", "fetching", "text", "reading"}
  /\ aborted' = TRUE
  /\ abortedAt' = [pc |-> pc, pos |-> pos]
  /\ UNCHANGED << pc, now, ticks, requestVars, wire, pos, reader,
                  cancelCalls, streamVars, pending, outcome >>
  /\ UNCHANGED pureVars

\* the caller invokes processStream(): fetch(requestUrl, finalRequestInit)
InvokeProcessStream ==
  /\ pc = "ready"
  /\ pc' = "fetching"
  /\ fetchCalls' = Append(fetchCalls, finalRequestInit)
  /\ UNCHANGED << now, ticks, apiFormat, hasSink, options, finalRequestInit,
                  controllerReturned, response, aborted, abortedAt, wire, pos,
                  reader, cancelCalls, streamVars, pending, outcome >>
  /\ UNCHANGED pureVars

\* fetch resolves with a response
FetchResolve(ok, readable, body) ==
  /\ pc = "fetching"
  /\ ~aborted
  /\ IF ~ok
       THEN /\ pc' = "text"
            /\ response' = "non-2xx"
            /\ UNCHANGED << wire, reader, cancelCalls, pending, outcome >>
       ELSE IF ~readable
         THEN /\ Finally(CatchResult("unreadable"), FALSE, FALSE)
              /\ response' = "unreadable"
              /\ UNCHANGED << wire, reader >>
         ELSE /\ pc' = "reading"
              /\ response' = "ok"
              /\ reader' = TRUE
              /\ wire' = body
              /\ UNCHANGED << cancelCalls, pending, outcome >>
  /\ UNCHANGED << now, ticks, apiFormat, hasSink, options, finalRequestInit,
                  controllerReturned, fetchCalls, aborted, abortedAt, pos,
                  streamVars >>
  /\ UNCHANGED pureVars

\* fetch rejects with a network error
FetchReject ==
  /\ pc = "fetching"
  /\ ~aborted
  /\ Finally(CatchResult("network"), reader, FALSE)
  /\ UNCHANGED << now, ticks, requestVars, aborted, abortedAt, wire, pos,
                  reader, streamVars >>
  /\ UNCHANGED pureVars

\* fetch rejects with an AbortError because the signal is aborted
FetchAbort ==
  /\ pc = "fetching"
  /\ aborted
  /\ Finally(CatchResult("AbortError"), reader, FALSE)
  /\ UNCHANGED << now, ticks, requestVars, aborted, abortedAt, wire, pos,
                  reader, streamVars >>
  /\ UNCHANGED pureVars

\* response.text() of a non-2xx response settles (a rejection is replaced by
\* ''), and the HTTP error is thrown
ErrorText ==
  /\ pc = "text"
  /\ Finally(CatchResult("http"), reader, FALSE)
  /\ UNCHANGED << now, ticks, requestVars, aborted, abortedAt, wire, pos,
                  reader, streamVars >>
  /\ UNCHANGED pureVars

\* reader.read() yields the next k bytes; they are decoded, appended to the
\* buffer and every complete line is handled
ReadChunk(k) ==
  /\ pc = "reading"
  /\ ~aborted
  /\ pos + k <= Len(wire)
  /\ LET chunk == SubSeq(wire, pos + 1, pos + k)
         L == DrainBuffer([Locals EXCEPT !.buffer = @ \o Decode(chunk)])
     IN /\ Commit(L)
        /\ IF L.thrown
             THEN Finally(CatchResult("CEREBR_MISFILED_THINK_SILENTLY"),
                          reader, FALSE)
             ELSE UNCHANGED << pc, cancelCalls, pending, outcome >>
  /\ pos' = pos + k
  /\ UNCHANGED << now, ticks, requestVars, aborted, abortedAt, wire, reader >>
  /\ UNCHANGED pureVars

\* reader.read() reports done: the server has closed the body after the
\* bytes delivered so far
ReadDone ==
  /\ pc = "reading"
  /\ ~aborted
  /\ Commit(FinalFlush(Locals, hasSink, now))
  /\ Finally("currentMessage", reader, FALSE)
  /\ UNCHANGED << now, ticks, requestVars, aborted, abortedAt, wire, pos,
                  reader >>
  /\ UNCHANGED pureVars

\* reader.read() rejects with a network error
ReadError ==
  /\ pc = "reading"
  /\ ~aborted
  /\ Finally(CatchResult("network"), reader, TRUE)
  /\ UNCHANGED << now, ticks, requestVars, aborted, abortedAt, wire, pos,
                  reader, streamVars >>
  /\ UNCHANGED pureVars

\* reader.read() rejects with an AbortError because the signal is aborted
ReadAbort ==
  /\ pc = "reading"
  /\ aborted
  /\ Finally(CatchResult("AbortError"), reader, TRUE)
  /\ UNCHANGED << now, ticks, requestVars, aborted, abortedAt, wire, pos,
                  reader, streamVars >>
  /\ UNCHANGED pureVars

\* the flush timer fires, at its due time or later: dispatchUpdate()
FireTimer ==
  /\ updateTimeout.set
  /\ now' = IF now >= updateTimeout.due THEN now ELSE updateTimeout.due
  /\ timers > 0
  /\ Commit([DispatchUpdate(Locals, hasSink, now', "timer")
               EXCEPT !.timers = timers - 1])
  /\ UNCHANGED << pc, ticks, requestVars, aborted, abortedAt, wire, pos,
                  reader, cancelCalls, pending, outcome >>
  /\ UNCHANGED pureVars

\* time passes while the body is being read.  Every comparison of the code
\* is against lastUpdateTime, so the passing of time is only followed once a
\* flush has set it.
Tick(d) ==
  /\ pc = "reading"
  /\ lastUpdateTime > 0
  /\ ticks < MaxTicks
  /\ now' = now + d
  /\ ticks' = ticks + 1
  /\ UNCHANGED << pc, requestVars, aborted, abortedAt, wire, pos, reader,
                  cancelCalls, streamVars, pending, outcome >>
  /\ UNCHANGED pureVars

Next ==
  \/ \E u \in BaseUrls, key \in BOOLEAN, f \in ExplicitFormats,
        sink \in BOOLEAN, o \in OptionSets : CallAPI(u, key, f, sink, o)
  \/ Abort
  \/ InvokeProcessStream
  \/ \E ok \in BOOLEAN, readable \in BOOLEAN, body \in Bodies(apiFormat) :
        FetchResolve(ok, readable, body)
  \/ FetchReject
  \/ FetchAbort
  \/ ErrorText
  \/ \E k \in 1..(Len(wire) - pos) : ReadChunk(k)
  \/ ReadDone
  \/ ReadError
  \/ ReadAbort
  \/ FireTimer
  \/ \E d \in {1, UPDATE_INTERVAL} : Tick(d)

Spec == Init /\ [][Next]_vars

\* the event loop keeps running: a pending flush timer eventually fires
FairSpec == Spec /\ WF_vars(FireTimer)

\* the helper functions, each applied once to an argument of PureInputs
callVars ==
  << pc, now, ticks, apiFormat, hasSink, options, finalRequestInit,
     controllerReturned, aborted, abortedAt, fetchCalls, response, wire, pos,
     reader, cancelCalls, buffer, currentMessage, lastUpdateTime,
     updateTimeout, didDispatchAnyUpdate, storeCalls, uiCalls, deltaLog,
     pending, outcome, timers >>

Detect ==
  /\ pureIn.fn = "detectApiFormat"
  /\ pureOut = NoOutput
  /\ pureOut' = [NoOutput EXCEPT
                   !.fn = "detectApiFormat",
                   !.format = DetectApiFormat(pureIn.baseUrl,
                                              pureIn.explicitFormat)]
  /\ UNCHANGED << callVars, pureIn >>

ToGemini ==
  /\ pureIn.fn = "convertToGeminiFormat"
  /\ pureOut = NoOutput
  /\ LET r == ConvertToGeminiFormat(pureIn.messages) IN
       pureOut' = [NoOutput EXCEPT
                     !.fn = "convertToGeminiFormat",
                     !.turns = r.contents,
                     !.systemInstruction = r.systemInstruction]
  /\ UNCHANGED << callVars, pureIn >>

ToClaude ==
  /\ pureIn.fn = "convertToClaudeFormat"
  /\ pureOut = NoOutput
  /\ LET r == ConvertToClaudeFormat(pureIn.messages) IN
       pureOut' = [NoOutput EXCEPT
                     !.fn = "convertToClaudeFormat",
                     !.turns = r.messages,
                     !.system = r.system]
  /\ UNCHANGED << callVars, pureIn >>

PureNext == Detect \/ ToGemini \/ ToClaude

PureSpec == PureInit /\ [][PureNext]_vars

\* ---------------------------------------------------------------- claims
Last(q) == q[Len(q)]

GuardError == "CEREBR_MISFILED_THINK_SILENTLY"

\* controller.abort() ran before the fetch started, during the fetch, or
\* while the first reader.read() was pending
AbortedBeforeFirstByte ==
  /\ aborted
  /\ \/ abortedAt.pc \in {"ready", "fetching"}
     \/ abortedAt.pc = "reading" /\ abortedAt.pos = 0

\* C1: when the caller aborts before the first response byte is read, the
\* call resolves with undefined and neither updateLastMessage nor
\* onMessageUpdate is ever invoked (nor is a flush timer left to invoke them).
C1_AbortBeforeFirstByte ==
  AbortedBeforeFirstByte =>
    /\ storeCalls = <<>>
    /\ uiCalls = <<>>
    /\ ~updateTimeout.set
    /\ pc = "settled" => outcome = "undefined"

C1_Witness ==
  /\ AbortedBeforeFirstByte
  /\ abortedAt.pc = "reading"
  /\ hasSink
  /\ pc = "settled"
  /\ cancelCalls = 1

\* C2: no fetch is issued by callAPI; a fetch is issued only after the
\* controller has been handed back and processStream invoked, and every
\* request passed to fetch carries the controller's signal, in each dialect.
C2_ControllerBeforeFetch ==
  /\ pc \in {"start", "ready"} => fetchCalls = <<>>
  /\ fetchCalls # <<>> =>
       /\ controllerReturned
       /\ \A i \in 1..Len(fetchCalls) : fetchCalls[i].signal
  /\ controllerReturned => finalRequestInit.signal

C2_Witness ==
  /\ fetchCalls # <<>>
  /\ apiFormat = "gemini"
  /\ aborted
  /\ abortedAt.pc = "ready"

\* C3: two consecutive flushes are at least UPDATE_INTERVAL apart, unless
\* the later one is the final flush made at end of stream.
C3_FlushSpacing ==
  \A i \in 2..Len(storeCalls) :
    \/ storeCalls[i].cause = "final"
    \/ storeCalls[i].at - storeCalls[i - 1].at >= UPDATE_INTERVAL

C3_Witness ==
  /\ Len(storeCalls) >= 3
  /\ storeCalls[2].cause = "timer"
  /\ storeCalls[2].at - storeCalls[1].at = UPDATE_INTERVAL
  /\ storeCalls[3].cause = "final"
  /\ storeCalls[3].at - storeCalls[2].at < UPDATE_INTERVAL

\* the stream ended normally (reader.read() reported done)
NormalEnd == pending = "currentMessage"

\* the accumulator as last delivered to both sinks equals the accumulator
FinalDelivered ==
  /\ storeCalls # <<>>
  /\ Last(storeCalls).msg = currentMessage
  /\ uiCalls # <<>>
  /\ Last(uiCalls) = currentMessage

\* C4: at a normal end of stream with a sink present, the accumulator has
\* been flushed by the time processStream returns: the last dispatched
\* snapshot equals the returned accumulator and no flush timer is pending.
C4_FinalFlushBeforeReturn ==
  (NormalEnd /\ hasSink) => (FinalDelivered /\ ~updateTimeout.set)

\* C5: after a normal end of stream with a sink present, a snapshot equal to
\* the final accumulator is eventually delivered to updateLastMessage and to
\* onMessageUpdate.
C5_FinalDelivered == (NormalEnd /\ hasSink) ~> FinalDelivered

\* the last delta arrived inside the throttle window of the previous flush
\* and was delivered by the final flush
C5_Witness ==
  /\ NormalEnd
  /\ hasSink
  /\ Len(storeCalls) >= 2
  /\ Last(storeCalls).cause = "final"
  /\ Last(storeCalls).at - storeCalls[Len(storeCalls) - 1].at < UPDATE_INTERVAL
  /\ Last(storeCalls).msg # storeCalls[Len(storeCalls) - 1].msg
  /\ FinalDelivered

Prefixes == MisfiledThinkSilentlyPrefixes(options)

MatchesPrefix(msg) == \E p \in Prefixes : StartsWith(ContentStart(msg), p)

Ambiguous(msg) == \E p \in Prefixes : StartsWith(p, ContentStart(msg))

\* C6: with the guard enabled and no reasoning content, a delta that makes
\* the normalised content start with a configured prefix before any dispatch
\* makes the call reject with the misfiled error, and a call that ends this
\* way has dispatched nothing and leaves no timer that could dispatch.
C6_GuardAbort ==
  /\ \A i \in 1..Len(deltaLog) :
       ( /\ options.detectMisfiledThinkSilently
         /\ deltaLog[i].msg.reasoning_content = <<>>
         /\ deltaLog[i].flushesBefore = 0
         /\ MatchesPrefix(deltaLog[i].msg) )
       => /\ deltaLog[i].verdict = "abort"
          /\ i = Len(deltaLog)
          /\ pc = "settled"
          /\ outcome = GuardError
  /\ outcome = GuardError =>
       /\ storeCalls = <<>>
       /\ uiCalls = <<>>
       /\ ~updateTimeout.set

\* prefix list ["think"], deltas "t", "hi", "nk is wrong", in three chunks
C6_Witness ==
  /\ outcome = GuardError
  /\ hasSink
  /\ Prefixes = {DefaultPrefix}
  /\ Len(deltaLog) = 3
  /\ deltaLog[1].msg.content = <<"t">>
  /\ deltaLog[2].msg.content = <<"t", "h", "i">>
  /\ Len(currentMessage.content) = 14

\* C7: with the guard enabled, once a delta leaves the content neither
\* matching a prefix nor a beginning of one, that delta goes on to the
\* dispatcher (and, with a sink, is the first snapshot flushed when nothing
\* was flushed before), and no later delta is suppressed or aborts.
C7_GuardOffAfterResolution ==
  \A i \in 1..Len(deltaLog) :
    ( /\ options.detectMisfiledThinkSilently
      /\ ~MatchesPrefix(deltaLog[i].msg)
      /\ ~Ambiguous(deltaLog[i].msg) )
    => /\ deltaLog[i].verdict = "pass"
       /\ (hasSink /\ deltaLog[i].flushesBefore = 0) =>
            (storeCalls # <<>> /\ storeCalls[1].msg = deltaLog[i].msg)
       /\ \A j \in (i + 1)..Len(deltaLog) : deltaLog[j].verdict = "pass"
       /\ outcome # GuardError

\* without a sink the guard is still consulted for the second delta, whose
\* text would be a match on its own
C7_Witness ==
  /\ options.detectMisfiledThinkSilently
  /\ ~hasSink
  /\ Len(deltaLog) >= 2
  /\ ~MatchesPrefix(deltaLog[1].msg)
  /\ ~Ambiguous(deltaLog[1].msg)
  /\ deltaLog[1].msg.reasoning_content = <<>>
  /\ deltaLog[2].msg.reasoning_content = <<>>
  /\ \E k \in 1..Len(deltaLog[2].msg.content) :
       \E p \in Prefixes :
         StartsWith(ToLowerCase(SubSeq(deltaLog[2].msg.content, k,
                                       Len(deltaLog[2].msg.content))), p)

\* C8: content and reasoning_content only ever grow by appending.
C8_AppendOnly ==
  [][ /\ StartsWith(currentMessage'.content, currentMessage.content)
      /\ StartsWith(currentMessage'.reasoning_content,
                    currentMessage.reasoning_content) ]_vars

C8_Witness ==
  /\ Len(deltaLog) >= 2
  /\ deltaLog[1].msg.content # <<>>
  /\ Len(currentMessage.content) > Len(deltaLog[1].msg.content)
  /\ currentMessage.reasoning_content # <<>>

RECURSIVE CompleteLines(_)
\* the newline-terminated lines of a text
CompleteLines(text) ==
  LET i == IndexOfNL(text) IN
  IF i = 0 THEN <<>>
  ELSE <<SubSeq(text, 1, i - 1)>>
         \o CompleteLines(SubSeq(text, i + 1, Len(text)))

RECURSIVE ApplyRecords(_, _, _)
\* the deltas of the data records among lines, applied in order to msg
ApplyRecords(fmt, lines, msg) ==
  IF lines = <<>> THEN msg
  ELSE LET line == Head(lines)
           data == SubSeq(line, 3, Len(line))
           p    == JSONParse(data)
           next == IF StartsWith(line, <<"da", "ta: ">>) /\ p.ok
                     THEN ExtractDelta(fmt, p, msg).msg ELSE msg
       IN ApplyRecords(fmt, Tail(lines), next)

\* the text the server sent: its bytes decoded as one UTF-8 string
SentText(body) == Decode(body)

\* the in-order concatenation of the deltas of all records of a body
RecordSum(fmt, body) ==
  ApplyRecords(fmt, CompleteLines(SentText(body)), EmptyMessage)

\* the bytes delivered by the reader so far
Delivered == SubSeq(wire, 1, pos)

\* C9: on normal completion the returned accumulator is the in-order
\* concatenation of the deltas of all data records of the stream; every
\* dispatched snapshot is a prefix of it, extends the snapshot before it and
\* holds no more than what was applied when it was dispatched.
C9_InOrderConcatenation ==
  /\ NormalEnd => currentMessage = RecordSum(apiFormat, Delivered)
  /\ \A i \in 1..Len(storeCalls) :
       /\ StartsWith(currentMessage.content, storeCalls[i].msg.content)
       /\ StartsWith(currentMessage.reasoning_content,
                     storeCalls[i].msg.reasoning_content)
       /\ i > 1 =>
            /\ StartsWith(storeCalls[i].msg.content,
                          storeCalls[i - 1].msg.content)
            /\ StartsWith(storeCalls[i].msg.reasoning_content,
                          storeCalls[i - 1].msg.reasoning_content)

\* C10: once the reader has been acquired, every exit of processStream calls
\* reader.cancel() exactly once; it is never called twice, never without a
\* reader, and the promise settles with the result of the try/catch even
\* when cancel() rejects.
C10_ReaderReleasedOnce ==
  /\ cancelCalls <= 1
  /\ ~reader => cancelCalls = 0
  /\ (reader /\ pc = "settled") => cancelCalls = 1
  /\ (reader /\ pc # "settled") => cancelCalls = 0
  /\ (reader /\ pc = "settled") => outcome = pending

\* cancellation in mid-stream: cancel() is called on an errored stream
C10_Witness ==
  /\ reader
  /\ pc = "settled"
  /\ cancelCalls = 1
  /\ pending = "undefined"
  /\ outcome = "undefined"
  /\ pos > 0

\* C11: a call ends in one outcome, fixed by what ended it.  A missing base
\* URL or API key: callAPI rejects, no controller was created and no fetch
\* made.  A non-2xx response or a 2xx response without a body stream:
\* processStream rejects and nothing was dispatched.  A guard abort: it
\* rejects.  Cancellation seen by a pending fetch or read: it resolves with
\* undefined, and nothing else resolves with undefined.  Only a normal end of
\* stream resolves with the accumulator.
C11_OutcomeMatchesCause ==
  /\ (outcome # "none") <=> (pc = "settled")
  /\ (pc # "start" /\ ~controllerReturned) <=> (outcome = "config")
  /\ outcome = "config" => (fetchCalls = <<>> /\ response = "none" /\ ~reader)
  /\ (pc = "settled" /\ response = "non-2xx") =>
       (outcome = "http" /\ storeCalls = <<>> /\ uiCalls = <<>>)
  /\ (pc = "settled" /\ response = "unreadable") =>
       (outcome = "unreadable" /\ storeCalls = <<>> /\ uiCalls = <<>>)
  /\ outcome \in {"http", "unreadable"} => ~updateTimeout.set
  /\ (\E i \in 1..Len(deltaLog) : deltaLog[i].verdict = "abort") <=>
       (outcome = GuardError)
  /\ (pc = "settled" /\ aborted /\ abortedAt.pc # "text") <=>
       (outcome = "undefined")
  /\ outcome = "currentMessage" =>
       (response = "ok" /\ reader /\ ~aborted /\ pending = "currentMessage")
  /\ pc = "settled" =>
       outcome \in {"config", "http", "unreadable", "network", GuardError,
                    "undefined", "currentMessage"}

\* a non-2xx response whose body read is cut short by the caller's abort
C11_Witness ==
  /\ pc = "settled"
  /\ response = "non-2xx"
  /\ aborted
  /\ abortedAt.pc = "text"
  /\ outcome = "http"

\* ------------------------------------------------------------------ C12
MarkerPositions(url, markers) ==
  { i \in 1..Len(url) : LowerFragment(url[i]) \in markers }

\* C12: detectApiFormat returns exactly one of openai, gemini, claude for
\* every base URL and explicit format; an explicit format that is one of the
\* three is returned verbatim whatever the URL contains; otherwise a Gemini
\* marker in the URL yields gemini (also next to a Claude marker), else a
\* Claude marker yields claude, else openai.
C12_DetectTotal ==
  pureOut.fn = "detectApiFormat" =>
    LET f == pureIn.explicitFormat
        gem == MarkerPositions(pureIn.baseUrl, GeminiMarkers)
        cla == MarkerPositions(pureIn.baseUrl, ClaudeMarkers)
        named == f \in {"openai", "gemini", "claude"}
    IN /\ pureOut.format \in {"openai", "gemini", "claude"}
       /\ named => pureOut.format = f
       /\ (~named /\ gem # {}) => pureOut.format = "gemini"
       /\ (~named /\ gem = {} /\ cla # {}) => pureOut.format = "claude"
       /\ (~named /\ gem = {} /\ cla = {}) => pureOut.format = "openai"

C12_Witness ==
  /\ pureOut.fn = "detectApiFormat"
  /\ pureIn.explicitFormat = "azure"
  /\ pureIn.baseUrl = <<"claude", "GEMINI">>
  /\ pureOut.format = "gemini"

\* ------------------------------------------------------------------ C13
IsSystem(m) == m.role = "system"

NotSystem(m) == m.role # "system"

\* the text parts a message contributes, in its own order
TextsOfMessage(m) ==
  IF m.content.kind = "string" THEN << m.content.text >>
  ELSE IF m.content.kind = "array"
    THEN LET IsTextItem(it) == it.type = "text"
             ts == SelectSeq(m.content.items, IsTextItem)
         IN [i \in 1..Len(ts) |-> ts[i].text]
  ELSE <<>>

\* the message yields at least one part: a text, or an image of a data URL
YieldsPart(m) ==
  \/ m.content.kind = "string"
  \/ /\ m.content.kind = "array"
     /\ \E i \in 1..Len(m.content.items) :
          \/ m.content.items[i].type = "text"
          \/ /\ m.content.items[i].url # <<>>
             /\ m.content.items[i].url[1] = "data:"

TextsOfTurn(turn) ==
  LET IsTextPart(p) == p.kind = "text"
      ps == SelectSeq(turn.parts, IsTextPart)
  IN [i \in 1..Len(ps) |-> ps[i].text]

RECURSIVE Occurs(_, _)
\* the text t occurs in the string s
Occurs(t, s) ==
  \/ StartsWith(s, t)
  \/ s # <<>> /\ Occurs(t, Tail(s))

\* the turn sequence holds the non-system messages that yield a part, in
\* their order, with their text parts in order and the role given by map
TurnsPreserved(map(_)) ==
  LET Kept(m) == NotSystem(m) /\ YieldsPart(m)
      kept == SelectSeq(pureIn.messages, Kept)
  IN /\ Len(pureOut.turns) = Len(kept)
     /\ \A i \in 1..Len(kept) :
          /\ pureOut.turns[i].role = map(kept[i].role)
          /\ pureOut.turns[i].role # "system"
          /\ TextsOfTurn(pureOut.turns[i]) = TextsOfMessage(kept[i])

GeminiRole(r) == IF r = "assistant" THEN "model" ELSE "user"

SameRole(r) == r

\* C13: both converters put all text of the system messages into the system
\* field and none of them into the turn sequence; the other messages that
\* yield a part appear as turns in their order, text parts in order, roles
\* assistant -> model and any other -> user for Gemini, unchanged for Claude.
C13_ConvertersPreserve ==
  LET sys == SelectSeq(pureIn.messages, IsSystem) IN
  /\ pureOut.fn = "convertToGeminiFormat" =>
       /\ TurnsPreserved(GeminiRole)
       /\ \A i \in 1..Len(sys) :
            /\ pureOut.systemInstruction.present
            /\ \E k \in 1..Len(pureOut.systemInstruction.parts) :
                 Occurs(SystemText(sys[i].content),
                        pureOut.systemInstruction.parts[k].text)
  /\ pureOut.fn = "convertToClaudeFormat" =>
       /\ TurnsPreserved(SameRole)
       /\ \A i \in 1..Len(sys) :
            Occurs(SystemText(sys[i].content), pureOut.system)

\* ------------------------------------------------------------------ C14
CancelledMidStream == aborted /\ abortedAt.pc = "reading"

\* C14: from the moment cancellation is signalled while the body is being
\* read, no delta is applied to the accumulator, no timer is scheduled, and
\* the only dispatch still possible is that of a timer pending since before
\* the cancellation (so no final flush); the call resolves with undefined.
C14_CancelMidStream ==
  [][ CancelledMidStream =>
        /\ currentMessage' = currentMessage
        /\ deltaLog' = deltaLog
        /\ buffer' = buffer
        /\ updateTimeout'.set => updateTimeout' = updateTimeout
        /\ storeCalls' # storeCalls =>
             /\ updateTimeout.set
             /\ ~updateTimeout'.set
             /\ storeCalls' = Append(storeCalls,
                                     [ msg |-> currentMessage,
                                       at |-> now',
                                       cause |-> "timer" ])
        /\ uiCalls' # uiCalls =>
             (updateTimeout.set /\ uiCalls' = Append(uiCalls, currentMessage))
        /\ pc' = "settled" =>
             (outcome' = "undefined" /\ pending' = "undefined") ]_vars

C14_Witness ==
  /\ pc = "settled"
  /\ CancelledMidStream
  /\ abortedAt.pos > 0
  /\ pos < Len(wire)
  /\ outcome = "undefined"
  /\ currentMessage.content # <<>>
  /\ storeCalls # <<>>
  /\ Last(storeCalls).cause = "timer"

\* ------------------------------------------------------------------ C15
\* a data line whose payload cannot be processed as a record: JSON.parse
\* throws on it, or reading the delta out of the parsed value throws
Malformed(fmt, line) ==
  /\ StartsWith(line, <<"da", "ta: ">>)
  /\ SubSeq(line, 3, Len(line)) # <<"[DONE]">>
  /\ LET p == JSONParse(SubSeq(line, 3, Len(line))) IN
       ~p.ok \/ ExtractDelta(fmt, p, EmptyMessage).threw

\* the lines of a text, each with its newline, without the malformed ones
WithoutMalformed(fmt, text) ==
  LET WellFormed(line) == ~Malformed(fmt, line)
      ls == SelectSeq(CompleteLines(text), WellFormed)
  IN Flatten([i \in 1..Len(ls) |-> ls[i] \o <<NL>>])

\* the accumulator after decoding a whole text delivered as one chunk
ResultOf(text) == DrainBuffer([Locals EXCEPT
                                 !.buffer = text,
                                 !.currentMessage = EmptyMessage,
                                 !.lastUpdateTime = 0,
                                 !.updateTimeout = NoTimer,
                                 !.didDispatchAnyUpdate = FALSE,
                                 !.storeCalls = <<>>,
                                 !.uiCalls = <<>>,
                                 !.deltaLog = <<>>,
                                 !.timers = 0,
                                 !.thrown = FALSE]).currentMessage

SplitCharacter == \E i \in 1..Len(currentMessage.content) :
                    currentMessage.content[i] = "FFFD"

\* C15: a data line whose payload cannot be processed is discarded: on
\* normal completion the result is that of the same stream without its
\* malformed lines (characters cut by a chunk boundary set aside); and a
\* guard abort is never swallowed, the call rejects with it.
C15_MalformedLineSkipped ==
  /\ (NormalEnd /\ ~SplitCharacter) =>
       currentMessage = ResultOf(WithoutMalformed(apiFormat, Decode(Delivered)))
  /\ (pc = "settled" /\ \E i \in 1..Len(deltaLog) :
                          deltaLog[i].verdict = "abort") =>
       outcome = GuardError

\* ------------------------------------------------------------------ C16
\* C16: when the resolved dialect is gemini or claude the guard does not
\* apply: no stream ends in the guard abort and no delta is suppressed,
\* even with the guard enabled and content that begins with a prefix.
C16_GuardOpenAIOnly ==
  apiFormat \in {"gemini", "claude"} =>
    /\ outcome # GuardError
    /\ \A i \in 1..Len(deltaLog) : deltaLog[i].verdict = "pass"

\* ------------------------------------------------------------------ C17
StillAmbiguous(d) ==
  /\ options.detectMisfiledThinkSilently
  /\ d.flushesBefore = 0
  /\ d.msg.reasoning_content = <<>>
  /\ Ambiguous(d.msg)
  /\ ~MatchesPrefix(d.msg)

\* C17: with the guard enabled, before the first dispatch and with no
\* reasoning content, a delta that leaves the normalised content a strict
\* beginning of a prefix (or empty) is suppressed: it stays in the
\* accumulator, and while it is the latest delta nothing has been
\* dispatched, no timer is pending and the call has not failed with the
\* guard error; only the flush at the end of the stream can surface it.
C17_AmbiguousKept ==
  \A i \in 1..Len(deltaLog) :
    StillAmbiguous(deltaLog[i]) =>
      /\ deltaLog[i].verdict = "suppress"
      /\ StartsWith(currentMessage.content, deltaLog[i].msg.content)
      /\ i = Len(deltaLog) =>
           /\ ~updateTimeout.set
           /\ outcome # GuardError
           /\ uiCalls = [k \in 1..Len(storeCalls) |-> storeCalls[k].msg]
           /\ \A k \in 1..Len(storeCalls) : storeCalls[k].cause = "final"
           /\ pc = "reading" => storeCalls = <<>>

\* whitespace only, then "T" against the prefix "think": both suppressed,
\* and the end of the stream flushes " T"
C17_Witness ==
  /\ NormalEnd
  /\ hasSink
  /\ Prefixes = {DefaultPrefix}
  /\ Len(deltaLog) = 2
  /\ deltaLog[1].msg.content = <<" ">>
  /\ deltaLog[1].verdict = "suppress"
  /\ deltaLog[2].verdict = "suppress"
  /\ Len(storeCalls) = 1
  /\ storeCalls[1].msg.content = <<" ", "T">>

\* ------------------------------------------------------------------ C18
\* C18: on normal completion the accumulator does not depend on how the
\* bytes were cut into chunks: it is what the same bytes give when they
\* arrive as a single chunk.
C18_ChunkingIndependent ==
  NormalEnd => currentMessage = ResultOf(Decode(Delivered))

\* ------------------------------------------------------------------ C19
\* a delta has been applied after the latest flush
DeltaSinceLastFlush ==
  \E i \in 1..Len(deltaLog) : deltaLog[i].flushesBefore = Len(storeCalls)

\* C19: at most one flush timer is live at any time; one is pending only
\* when a flush has happened before and a delta has been applied since that
\* flush; and every flush, whatever its cause, leaves no timer pending.
C19_SingleTimer ==
  /\ timers <= 1
  /\ updateTimeout.set <=> timers = 1
  /\ updateTimeout.set =>
       /\ storeCalls # <<>>
       /\ lastUpdateTime = Last(storeCalls).at
       /\ DeltaSinceLastFlush
       /\ currentMessage # Last(storeCalls).msg
  /\ (storeCalls # <<>> /\ ~DeltaSinceLastFlush) =>
       (~updateTimeout.set /\ timers = 0)

\* a timer armed during the throttle window, with a further delta applied
\* while it was pending
C19_Witness ==
  /\ updateTimeout.set
  /\ timers = 1
  /\ Len(storeCalls) = 1
  /\ Len(deltaLog) >= 3
  /\ deltaLog[2].flushesBefore = 1
  /\ deltaLog[3].flushesBefore = 1

\* ------------------------------------------------------------------ C20
\* the line is a data record that carries a delta
CarriesDelta(fmt, line) ==
  /\ StartsWith(line, <<"da", "ta: ">>)
  /\ LET p == JSONParse(SubSeq(line, 3, Len(line))) IN
       /\ p.ok
       /\ ~ExtractDelta(fmt, p, EmptyMessage).threw
       /\ ExtractDelta(fmt, p, EmptyMessage).hasUpdate

\* the newline-terminated lines received so far that carry a delta
TerminatedRecords ==
  LET Carries(line) == CarriesDelta(apiFormat, line)
  IN SelectSeq(CompleteLines(Decode(Delivered)), Carries)

\* no line received so far is a record that throws while it is applied
NoThrowingRecord ==
  \A i \in 1..Len(CompleteLines(Decode(Delivered))) :
    ~Malformed(apiFormat, CompleteLines(Decode(Delivered))[i])
      \/ ~JSONParse(SubSeq(CompleteLines(Decode(Delivered))[i], 3,
              Len(CompleteLines(Decode(Delivered))[i]))).ok

GuardTripped == \E i \in 1..Len(deltaLog) : deltaLog[i].verdict = "abort"

\* C20: the deltas applied are exactly those of the newline-terminated
\* data records received, those after a [DONE] line included; a record left
\* in the buffer without its newline when the stream ends is in neither the
\* returned accumulator nor the final flush.
C20_OnlyTerminatedLines ==
  /\ (pc \in {"reading", "settled"} /\ ~GuardTripped) =>
       Len(deltaLog) = Len(TerminatedRecords)
  /\ (NormalEnd /\ NoThrowingRecord) =>
       /\ currentMessage = (IF deltaLog = <<>> THEN EmptyMessage
                            ELSE Last(deltaLog).msg)
       /\ \A k \in 1..Len(storeCalls) :
            storeCalls[k].cause = "final" => storeCalls[k].msg = currentMessage

\* [DONE], then "hi", then "T" whose newline never arrives
C20_Witness ==
  /\ NormalEnd
  /\ hasSink
  /\ pos = Len(wire) - 1
  /\ buffer = <<"da", "ta: ">> \o OC(<<"T">>)
  /\ StartsWith(wire, DataLine(<<"[DONE]">>))
  /\ currentMessage.content = <<"h", "i">>
  /\ storeCalls # <<>>
  /\ Last(storeCalls).msg.content = <<"h", "i">>

====
